---------------------------- MODULE Spec2Model ----------------------------
(***************************************************************************)
(* Star schema builder for the Seattle illegal dumping extract             *)
(* (scripts/build_star_schema_documented.py).                              *)
(*                                                                         *)
(* Text cells are sequences of one-character strings; the missing value    *)
(* (pd.NA / NaN in a text column) is the one-element sequence NA, whose    *)
(* element is not a character.  Numeric cells are records: a number, NaN,  *)
(* or a text that is not a number.  Coordinates are counted in ticks of    *)
(* 0.00002 degree, so that round(4) never meets an exact half.  The         *)
(* characters are those of Latin-1.                                        *)
(***************************************************************************)
EXTENDS Integers, Sequences, FiniteSets, TLC

VARIABLES pc, header, raw, clean, star, files, err, keyArgs, keyRes

vars == <<pc, header, raw, clean, star, files, err, keyArgs, keyRes>>

pipeVars == <<pc, header, raw, clean, star, files, err>>

keyVars == <<keyArgs, keyRes>>

----------------------------------------------------------------------------
(* Bounds *)

\* Longest input file, in records, that Init enumerates.
MaxRecs == 2

\* Coordinates enumerated for build_location_key lie in -MaxTick..MaxTick.
MaxTick == 5

\* Ticks (0.00002 degree) in one 4-decimal cell (0.0001 degree): round(4).
TicksPerCell == 5

----------------------------------------------------------------------------
(* Cells *)

NA == <<"<NA>">>

Num(n) == [t |-> "num", n |-> n]

NaN == [t |-> "nan", n |-> 0]

\* A cell whose text is not a number ("abc").
NotNum == [t |-> "str", n |-> 0]

IsNum(x) == x.t = "num"

Abs(n) == IF n < 0 THEN -n ELSE n

----------------------------------------------------------------------------
(* Characters *)

Digits == {"0", "1", "2", "3", "4", "5", "6", "7", "8", "9"}

UpperLetters == {"A", "B", "C", "D", "E", "F", "G", "H", "I", "J", "K", "L",
                 "M", "N", "O", "P", "Q", "R", "S", "T", "U", "V", "W", "X",
                 "Y", "Z"}

\* The alphabet of the model: the whitespace and the printable characters of
\* Latin-1 (U+0020 to U+007E, U+00A0 to U+00FF), and the two capitals of Latin-1
\* letters that lie outside it.  U+0060 and the capital of U+00FF, U+0178, have
\* no literal in a string here and go by their code points.
GraveAccent == "U+0060"

CapitalYDiaeresis == "U+0178"

\* The characters str.strip() strips and the pattern \s matches: TAB, LF, VT,
\* FF, CR, FS, GS, RS, US, SPACE, NEL (U+0085) and NBSP (U+00A0).
Whitespace ==
    {"\t", "\n", "", "\f", "\r", "", "", "", "", " ", "", " "}

\* The letters of the alphabet str.upper() maps to one other character, and,
\* at the same index, that character.
Lowercase ==
    <<"a", "b", "c", "d", "e", "f", "g", "h", "i", "j", "k", "l", "m", "n",
      "o", "p", "q", "r", "s", "t", "u", "v", "w", "x", "y", "z", "µ", "à",
      "á", "â", "ã", "ä", "å", "æ", "ç", "è", "é", "ê", "ë", "ì", "í", "î",
      "ï", "ð", "ñ", "ò", "ó", "ô", "õ", "ö", "ø", "ù", "ú", "û", "ü", "ý",
      "þ", "ÿ">>

Uppercase ==
    <<"A", "B", "C", "D", "E", "F", "G", "H", "I", "J", "K", "L", "M", "N",
      "O", "P", "Q", "R", "S", "T", "U", "V", "W", "X", "Y", "Z", "Μ", "À",
      "Á", "Â", "Ã", "Ä", "Å", "Æ", "Ç", "È", "É", "Ê", "Ë", "Ì", "Í", "Î",
      "Ï", "Ð", "Ñ", "Ò", "Ó", "Ô", "Õ", "Ö", "Ø", "Ù", "Ú", "Û", "Ü", "Ý",
      "Þ", CapitalYDiaeresis>>

\* str.upper on one character: the characters it becomes.  U+00DF, the sharp s,
\* becomes two; a character without a capital stays.
UpperChar(c) ==
    IF c = "ß" THEN <<"S", "S">>
    ELSE IF \E i \in 1..Len(Lowercase) : Lowercase[i] = c
         THEN <<Uppercase[CHOOSE i \in 1..Len(Lowercase) : Lowercase[i] = c]>>
         ELSE <<c>>

\* .str.upper()
RECURSIVE Upper(_)
Upper(s) == IF s = <<>> THEN <<>> ELSE UpperChar(Head(s)) \o Upper(Tail(s))

RECURSIVE LStrip(_)
LStrip(s) == IF s # <<>> /\ Head(s) \in Whitespace THEN LStrip(Tail(s)) ELSE s

RECURSIVE RStrip(_)
RStrip(s) ==
    IF s # <<>> /\ s[Len(s)] \in Whitespace
    THEN RStrip(SubSeq(s, 1, Len(s) - 1))
    ELSE s

\* .str.strip()
Strip(s) == RStrip(LStrip(s))

\* .str.replace(r"[^A-Z0-9 ]+", "", regex=True)
RECURSIVE RemoveSpecial(_)
RemoveSpecial(s) ==
    IF s = <<>> THEN <<>>
    ELSE IF Head(s) \in UpperLetters \cup Digits \cup {" "}
         THEN <<Head(s)>> \o RemoveSpecial(Tail(s))
         ELSE RemoveSpecial(Tail(s))

\* .str.replace(r"\s+", " ", regex=True): each run of whitespace becomes one
\* space.
RECURSIVE CollapseSpaces(_)
CollapseSpaces(s) ==
    IF s = <<>> THEN <<>>
    ELSE IF Head(s) \in Whitespace
         THEN <<" ">> \o CollapseSpaces(LStrip(s))
         ELSE <<Head(s)>> \o CollapseSpaces(Tail(s))

\* The texts .replace({"None": pd.NA, "nan": pd.NA, "": pd.NA}) turns into NA.
NullTokens == {<<"N", "o", "n", "e">>, <<"n", "a", "n">>, <<>>}

ReplaceNull(s) == IF s \in NullTokens THEN NA ELSE s

\* std_text on one cell.
std_text(v) == IF v = NA THEN NA ELSE ReplaceNull(Strip(v))

\* std_upper_key on one cell.
std_upper_key(v) == IF v = NA THEN NA ELSE ReplaceNull(Strip(Upper(v)))


----------------------------------------------------------------------------
(* Location Key Resolver: build_location_key *)

\* The normalised address (loc_std) of one row.
loc_std(location) ==
    IF location = NA THEN NA
    ELSE ReplaceNull(Strip(CollapseSpaces(RemoveSpecial(Upper(location)))))

\* pd.to_numeric(x, errors="coerce") on one cell.
to_numeric(x) == IF IsNum(x) THEN x ELSE NaN

\* A mask_00 that never holds: the (0, 0) rule forgotten.
IsZeroZeroNever(la, lo) == FALSE

\* mask_00 of one row: (lat_num == 0) & (lon_num == 0); NaN == 0 is False.
IsZeroZero(la, lo) == IsNum(la) /\ IsNum(lo) /\ la.n = 0 /\ lo.n = 0

\* Series.mask(mask_00, np.nan) on one cell.
MaskZero(x, m) == IF m THEN NaN ELSE x

\* The coordinate cut to 4 decimals instead of rounded.
Round4TextTruncated(k) == <<k < 0, Abs(k) \div TicksPerCell>>

\* The text of float.round(4): the sign and the number of 0.0001 cells.  The
\* sign is kept apart because -0.00002 rounds to -0.0, which prints "-0.0" and
\* not "0.0".
Round4Text(k) ==
    <<k < 0, (2 * Abs(k) + TicksPerCell) \div (2 * TicksPerCell)>>

NoCoord == <<FALSE, 0>>

\* The three shapes of a key.  A coordinate key holds "," and "."; a normalised
\* address holds neither, so the two never are the same string.
GeoKey(la, lo) == [form |-> "geo", lat |-> la, lon |-> lo, text |-> <<>>]

AddrKey(t) == [form |-> "addr", lat |-> NoCoord, lon |-> NoCoord, text |-> t]

NoKey == [form |-> "na", lat |-> NoCoord, lon |-> NoCoord, text |-> <<>>]

\* build_location_key on one row: geo_key.fillna(loc_std).
LocationKeyRow(location, lat, lon) ==
    LET lat_num == to_numeric(lat)
        lon_num == to_numeric(lon)
        mask_00 == IsZeroZero(lat_num, lon_num)
        la      == MaskZero(lat_num, mask_00)
        lo      == MaskZero(lon_num, mask_00)
        has_geo == IsNum(la) /\ IsNum(lo)
        a       == loc_std(location)
    IN  IF has_geo
        THEN GeoKey(Round4Text(la.n), Round4Text(lo.n))
        ELSE IF a = NA THEN NoKey ELSE AddrKey(a)

\* build_location_key on three aligned columns.
build_location_key(location, lat, lon) ==
    [i \in 1..Len(location) |-> LocationKeyRow(location[i], lat[i], lon[i])]


----------------------------------------------------------------------------
(* build_location_key on its own: two rows drawn from bounded sets *)

KeyLocations ==
    { NA,
      <<"#">>,
      <<"1", " ", " ", "M", "a", "i", "n", ".">>,
      <<"9", " ", "O", "a", "k">>,
      <<"\t", "ß", " ", "5">> }

KeyCoords == {NaN, NotNum} \cup {Num(k) : k \in -MaxTick..MaxTick}

NoKeyArgs == [location |-> <<>>, lat |-> <<>>, lon |-> <<>>]

PipeIdle ==
    /\ pc = "idle"
    /\ header = {}
    /\ raw = <<>>
    /\ clean = <<>>
    /\ star = <<>>
    /\ files = <<>>
    /\ err = <<>>

KeyInit ==
    /\ PipeIdle
    /\ \E l1 \in KeyLocations, l2 \in KeyLocations,
          a1 \in KeyCoords, a2 \in KeyCoords,
          o1 \in KeyCoords, o2 \in KeyCoords :
            keyArgs = [location |-> <<l1, l2>>, lat |-> <<a1, a2>>,
                       lon |-> <<o1, o2>>]
    /\ keyRes = <<>>

\* One call of build_location_key.
KeyApply ==
    /\ pc = "idle"
    /\ keyRes = <<>>
    /\ keyRes' = build_location_key(keyArgs.location, keyArgs.lat, keyArgs.lon)
    /\ UNCHANGED <<keyArgs, pipeVars>>

KeyNext == KeyApply

KeySpec == KeyInit /\ [][KeyNext]_vars

KeyDone == keyRes # <<>>

\* Both coordinates of row i are numbers and are not (0, 0).
HasCoords(i) ==
    /\ IsNum(keyArgs.lat[i])
    /\ IsNum(keyArgs.lon[i])
    /\ ~(keyArgs.lat[i].n = 0 /\ keyArgs.lon[i].n = 0)

\* Two coordinates less than 0.00005 degree apart: 2 * 0.00002 * |j - k| < 0.0001.
Near(j, k) == 2 * Abs(j - k) < TicksPerCell

\* Two coordinates in the same 4-decimal cell, on the same side of zero: within
\* half a cell of the same multiple c of 0.0001.
SameCell(j, k) ==
    /\ (j < 0) = (k < 0)
    /\ \E c \in 0..(MaxTick + 1) :
          /\ 2 * Abs(Abs(j) - c * TicksPerCell) < TicksPerCell
          /\ 2 * Abs(Abs(k) - c * TicksPerCell) < TicksPerCell

\* The number round(4) gives, in 0.0001 degree: -0.0 and 0.0 are one number.
Round4(k) ==
    LET c == (2 * Abs(k) + TicksPerCell) \div (2 * TicksPerCell)
    IN  IF k < 0 THEN -c ELSE c

\* C4: two rows with both coordinates present, not (0, 0), whose latitudes
\* round to equal 4-decimal values and whose longitudes round to equal 4-decimal
\* values get equal Location Keys, whatever their addresses.
C4_EqualRoundedEqualKey ==
    (KeyDone /\ HasCoords(1) /\ HasCoords(2)
       /\ Round4(keyArgs.lat[1].n) = Round4(keyArgs.lat[2].n)
       /\ Round4(keyArgs.lon[1].n) = Round4(keyArgs.lon[2].n))
    => keyRes[1] = keyRes[2]

\* The closeness C4 starts from: two rows with both coordinates present, not
\* (0, 0), whose latitudes and longitudes each differ by less than 0.00005
\* degree get equal Location Keys.
C4_NearCoordsEqualKey ==
    (KeyDone /\ HasCoords(1) /\ HasCoords(2)
       /\ Near(keyArgs.lat[1].n, keyArgs.lat[2].n)
       /\ Near(keyArgs.lon[1].n, keyArgs.lon[2].n))
    => keyRes[1] = keyRes[2]

\* What the key does give: two rows with both coordinates present, not (0, 0),
\* whose latitudes lie in the same 4-decimal cell and whose longitudes lie in the
\* same 4-decimal cell, on the same side of zero, get equal Location Keys,
\* whatever their addresses.
C4_SameCellEqualKey ==
    (KeyDone /\ HasCoords(1) /\ HasCoords(2)
       /\ SameCell(keyArgs.lat[1].n, keyArgs.lat[2].n)
       /\ SameCell(keyArgs.lon[1].n, keyArgs.lon[2].n))
    => keyRes[1] = keyRes[2]

\* Two rows in the same cells, at different coordinates and addresses, with one key.
C4_Witness ==
    /\ KeyDone /\ HasCoords(1) /\ HasCoords(2)
    /\ SameCell(keyArgs.lat[1].n, keyArgs.lat[2].n)
    /\ SameCell(keyArgs.lon[1].n, keyArgs.lon[2].n)
    /\ keyArgs.lat[1] # keyArgs.lat[2]
    /\ keyArgs.lon[1] # keyArgs.lon[2]
    /\ loc_std(keyArgs.location[1]) # loc_std(keyArgs.location[2])
    /\ loc_std(keyArgs.location[1]) # NA
    /\ keyRes[1].form = "geo"
    /\ keyRes[1] = keyRes[2]

\* Row i has latitude 0, longitude 0 and a non-empty address.
ZeroZeroWithAddress(i) ==
    /\ keyArgs.lat[i] = Num(0)
    /\ keyArgs.lon[i] = Num(0)
    /\ keyArgs.location[i] # NA
    /\ keyArgs.location[i] # <<>>

\* C5: a row with latitude 0, longitude 0 and a non-empty address never gets the
\* coordinate form of the key; its key is what the address path gives, the
\* normalised address text (absent when nothing of the address is left).
C5_ZeroZeroUsesAddress ==
    KeyDone =>
      \A i \in 1..2 :
        ZeroZeroWithAddress(i) =>
          /\ keyRes[i].form # "geo"
          /\ keyRes[i].form = "addr" =>
               keyRes[i].text = loc_std(keyArgs.location[i])
          /\ keyRes[i].form = "na" => loc_std(keyArgs.location[i]) = NA

\* A (0, 0) row keyed by its normalised address.
C5_Witness ==
    /\ KeyDone
    /\ ZeroZeroWithAddress(1)
    /\ keyRes[1] = AddrKey(<<"9", " ", "O", "A", "K">>)


----------------------------------------------------------------------------
(* The input file: a header and the cells pd.read_csv gives *)

CreatedDate == "Created Date"

Location == "Location"

Latitude == "Latitude"

Longitude == "Longitude"

ZIPCode == "ZIP Code"

PolicePrecinct == "Police Precinct"

CouncilDistrict == "Council District"

Status == "Status"

MethodReceived == "Method Received"

ViolationLocatedAt == "Where is the Illegal Dumping Violation located?"

DumpingDescription == "Choose a description of the Illegal Dumping"

ServiceRequestNumber == "Service Request Number"

CommunityReportingArea == "Community Reporting Area"

\* The twelve columns the script reads by name.
ExpectedColumns ==
    {CreatedDate, Location, Latitude, Longitude, ZIPCode, PolicePrecinct,
     CouncilDistrict, Status, MethodReceived, ViolationLocatedAt,
     DumpingDescription, ServiceRequestNumber}

FullHeader == ExpectedColumns \cup {CommunityReportingArea}

\* Timestamps: a parsed calendar value, NaT, or a text that is no date.
Ts(y, m, d, h) == [t |-> "ts", y |-> y, m |-> m, d |-> d, h |-> h]

NaT == [t |-> "nat", y |-> 0, m |-> 0, d |-> 0, h |-> 0]

NotDate == [t |-> "str", y |-> 0, m |-> 0, d |-> 0, h |-> 0]

Unknown == <<"U", "n", "k", "n", "o", "w", "n">>

\* 47.6062 and -122.3321 degrees, in ticks of 0.00002 degree.
SeattleLat == 476062 * TicksPerCell

SeattleLon == -(1223321 * TicksPerCell)

\* The cells of a record other than its request number.
ProfileA ==
    [c \in FullHeader \ {ServiceRequestNumber} |->
       CASE c = CreatedDate -> Ts(2024, 3, 9, 14)
         [] c = Location -> <<"1", "2", "3", " ", "M", "A", "I", "N", " ", "S", "T">>
         [] c = Latitude -> Num(SeattleLat)
         [] c = Longitude -> Num(SeattleLon)
         [] c = ZIPCode -> <<"9", "8", "1", "0", "1">>
         [] c = PolicePrecinct -> <<"W", "e", "s", "t">>
         [] c = CouncilDistrict -> Num(3)
         [] c = Status -> <<"C", "l", "o", "s", "e", "d">>
         [] c = MethodReceived -> <<"A", "p", "p">>
         [] c = ViolationLocatedAt -> <<"A", "l", "l", "e", "y">>
         [] c = DumpingDescription -> <<"B", "a", "g", "s">>
         [] c = CommunityReportingArea -> NA]

\* Same site as ProfileA after rounding, other address text, other case.
ProfileB ==
    [c \in FullHeader \ {ServiceRequestNumber} |->
       CASE c = CreatedDate -> Ts(2024, 3, 9, 8)
         [] c = Location -> <<"1", "2", "3", " ", "M", "a", "i", "n", " ", "S", "t", "r", "e", "e", "t">>
         [] c = Latitude -> Num(SeattleLat + 1)
         [] c = Longitude -> Num(SeattleLon - 2)
         [] c = ZIPCode -> <<"9", "8", "1", "0", "1", "-", "1", "2", "3", "4">>
         [] c = PolicePrecinct -> <<" ", "W", "e", "s", "t">>
         [] c = CouncilDistrict -> NaN
         [] c = Status -> <<"O", "p", "e", "n">>
         [] c = MethodReceived -> <<"P", "h", "o", "n", "e">>
         [] c = ViolationLocatedAt -> <<"A", "L", "L", "E", "Y">>
         [] c = DumpingDescription -> <<"B", "a", "g", "s">>
         [] c = CommunityReportingArea -> NA]

\* The "no GPS fix" placeholder, and every other field absent or malformed.
ProfileC ==
    [c \in FullHeader \ {ServiceRequestNumber} |->
       CASE c = CreatedDate -> NotDate
         [] c = Location -> <<"4", "5", "6", " ", "O", "a", "k", " ", "A", "v", "e">>
         [] c = Latitude -> Num(0)
         [] c = Longitude -> Num(0)
         [] c = ZIPCode -> <<"9", "8", "1", "0">>
         [] c = PolicePrecinct -> NA
         [] c = CouncilDistrict -> NotNum
         [] c = Status -> <<" ", "N", "o", "n", "e">>
         [] c = MethodReceived -> <<" ", " ">>
         [] c = ViolationLocatedAt -> NA
         [] c = DumpingDescription -> <<"n", "a", "n", " ">>
         [] c = CommunityReportingArea -> NA]

\* No coordinates and an address of punctuation only; a neighbouring cell's
\* latitude is in ProfileE.
ProfileD ==
    [c \in FullHeader \ {ServiceRequestNumber} |->
       CASE c = CreatedDate -> NaT
         [] c = Location -> <<"#", "?">>
         [] c = Latitude -> NotNum
         [] c = Longitude -> Num(SeattleLon)
         [] c = ZIPCode -> NA
         [] c = PolicePrecinct -> <<"W", "e", "s", "t">>
         [] c = CouncilDistrict -> Num(0)
         [] c = Status -> <<"C", "l", "o", "s", "e", "d">>
         [] c = MethodReceived -> <<"A", "p", "p">>
         [] c = ViolationLocatedAt -> <<"A", "l", "l", "e", "y">>
         [] c = DumpingDescription -> <<"T", "i", "r", "e", "s">>
         [] c = CommunityReportingArea -> <<"X">>]

\* 0.00006 degree north of ProfileA: the next 4-decimal cell.  No address.
ProfileE ==
    [c \in FullHeader \ {ServiceRequestNumber} |->
       CASE c = CreatedDate -> Ts(2023, 12, 31, 23)
         [] c = Location -> NA
         [] c = Latitude -> Num(SeattleLat + 3)
         [] c = Longitude -> Num(SeattleLon)
         [] c = ZIPCode -> <<"9", "8", "1", "0", "1">>
         [] c = PolicePrecinct -> <<"N", "o", "r", "t", "h">>
         [] c = CouncilDistrict -> Num(7)
         [] c = Status -> <<"O", "p", "e", "n">>
         [] c = MethodReceived -> <<"A", "p", "p">>
         [] c = ViolationLocatedAt -> <<"A", "l", "l", "e", "y">>
         [] c = DumpingDescription -> <<"B", "a", "g", "s">>
         [] c = CommunityReportingArea -> NA]

\* A record typed abroad: tabs and a no-break space around the values, letters
\* beyond a-z, no coordinates, and a New Year's Day of ISO week 53.
ProfileF ==
    [c \in FullHeader \ {ServiceRequestNumber} |->
       CASE c = CreatedDate -> Ts(2021, 1, 1, 6)
         [] c = Location -> <<"\t", "S", "t", "r", "a", "ß", "e", " ", "\t", "5">>
         [] c = Latitude -> NaN
         [] c = Longitude -> NaN
         [] c = ZIPCode -> <<"\t", "9", "8", "1", "0", "1">>
         [] c = PolicePrecinct -> <<"\t", "W", "e", "s", "t", "\n">>
         [] c = CouncilDistrict -> Num(3)
         [] c = Status -> <<"\t">>
         [] c = MethodReceived -> <<"A", "p", "p", " ">>
         [] c = ViolationLocatedAt -> <<"C", "a", "f", "é">>
         [] c = DumpingDescription -> <<"B", "a", "g", "s">>
         [] c = CommunityReportingArea -> NA]

Profiles == {ProfileA, ProfileB, ProfileC, ProfileD, ProfileE, ProfileF}

\* Two request numbers, a missing cell, and a "nan" marker with a blank.
RequestNumbers ==
    {<<"2", "4", "-", "1">>, <<"2", "4", "-", "2">>, NA, <<"n", "a", "n", " ">>}

\* One Raw Record: a profile with a request number.
RawRecord(srn, p) ==
    [c \in FullHeader |-> IF c = ServiceRequestNumber THEN srn ELSE p[c]]

RawRecords == {RawRecord(n, p) : n \in RequestNumbers, p \in Profiles}

\* The files Init enumerates: up to MaxRecs records.
RECURSIVE InputsOfLen(_)
InputsOfLen(n) ==
    IF n = 0 THEN {<<>>}
    ELSE {Append(s, r) : s \in InputsOfLen(n - 1), r \in RawRecords}

Inputs == UNION {InputsOfLen(n) : n \in 0..MaxRecs}

\* Section 8's end-to-end scenario: rows a, b and c.
ScenarioInput ==
    <<RawRecord(<<"2", "4", "-", "1">>, ProfileA), RawRecord(<<"2", "4", "-", "2">>, ProfileB),
      RawRecord(<<"2", "4", "-", "3">>, ProfileC)>>

\* The headers Init enumerates: complete, or lacking one expected column.
Headers == {FullHeader} \cup {FullHeader \ {c} : c \in ExpectedColumns}

\* A file with header h: each record restricted to the columns of h.
Project(rows, h) == [i \in 1..Len(rows) |-> [c \in h |-> rows[i][c]]]


----------------------------------------------------------------------------
(* Record Cleaner: load_and_clean *)

TextColumns ==
    {Location, PolicePrecinct, Status, MethodReceived, ViolationLocatedAt,
     DumpingDescription, ServiceRequestNumber, CommunityReportingArea}

\* safe_unknown_cols
safe_unknown_cols ==
    {PolicePrecinct, Status, MethodReceived, ViolationLocatedAt,
     DumpingDescription, Location}

DerivedColumns == {"Year", "Month", "Day", "Weekday", "Hour"}

\* pd.to_datetime(x, errors="coerce") on one cell.
to_datetime(x) == IF x.t = "ts" THEN x ELSE NaT

\* .str.extract(r"(\d{5})", expand=False): the first run of five digits.
RECURSIVE ExtractZip(_)
ExtractZip(s) ==
    IF s = NA \/ Len(s) < 5 THEN NA
    ELSE IF \A i \in 1..5 : s[i] \in Digits THEN SubSeq(s, 1, 5)
         ELSE ExtractZip(Tail(s))

\* df[col].fillna("Unknown") for the columns of safe_unknown_cols.
FillUnknown(col, v) ==
    IF col \in safe_unknown_cols /\ v = NA THEN Unknown ELSE v

\* A coercion that defaults an unparsable district to 0.
CoerceDistrictZero(x) == IF IsNum(x) THEN x ELSE Num(0)

\* pd.to_numeric(x, errors="coerce").astype("Int64") on one cell.
CoerceDistrict(x) == to_numeric(x)

\* One cell of the cleaned frame, for a column of the input header h.
CleanCell(h, row, col) ==
    CASE col = CreatedDate -> to_datetime(row[col])
      [] col = ZIPCode -> std_text(ExtractZip(row[col]))
      [] col = CouncilDistrict -> CoerceDistrict(row[col])
      [] col \in {Latitude, Longitude} ->
           IF Latitude \in h /\ Longitude \in h
           THEN MaskZero(to_numeric(row[col]),
                         IsZeroZero(to_numeric(row[Latitude]),
                                    to_numeric(row[Longitude])))
           ELSE to_numeric(row[col])
      [] OTHER -> FillUnknown(col, std_text(row[col]))

\* The proleptic Gregorian calendar of the timestamps.
IsLeap(y) == (y % 4 = 0 /\ y % 100 # 0) \/ y % 400 = 0

\* The days of a common year before the first of each month.
DaysBeforeMonth == <<0, 31, 59, 90, 120, 151, 181, 212, 243, 273, 304, 334>>

\* .dt.dayofyear: 1 on the first of January.
DayOfYear(ts) ==
    DaysBeforeMonth[ts.m] + ts.d + (IF ts.m > 2 /\ IsLeap(ts.y) THEN 1 ELSE 0)

\* The days from the first of January of year 1, itself day 1, a Monday.
Ordinal(ts) ==
    LET p == ts.y - 1
    IN  365 * p + (p \div 4) - (p \div 100) + (p \div 400) + DayOfYear(ts)

\* .dt.dayofweek: Monday is 0, Sunday is 6.
DayOfWeek(ts) == (Ordinal(ts) + 6) % 7

DayNames ==
    <<<<"M", "o", "n", "d", "a", "y">>,
      <<"T", "u", "e", "s", "d", "a", "y">>,
      <<"W", "e", "d", "n", "e", "s", "d", "a", "y">>,
      <<"T", "h", "u", "r", "s", "d", "a", "y">>,
      <<"F", "r", "i", "d", "a", "y">>,
      <<"S", "a", "t", "u", "r", "d", "a", "y">>,
      <<"S", "u", "n", "d", "a", "y">>>>

MonthNames ==
    <<<<"J", "a", "n", "u", "a", "r", "y">>,
      <<"F", "e", "b", "r", "u", "a", "r", "y">>,
      <<"M", "a", "r", "c", "h">>,
      <<"A", "p", "r", "i", "l">>,
      <<"M", "a", "y">>,
      <<"J", "u", "n", "e">>,
      <<"J", "u", "l", "y">>,
      <<"A", "u", "g", "u", "s", "t">>,
      <<"S", "e", "p", "t", "e", "m", "b", "e", "r">>,
      <<"O", "c", "t", "o", "b", "e", "r">>,
      <<"N", "o", "v", "e", "m", "b", "e", "r">>,
      <<"D", "e", "c", "e", "m", "b", "e", "r">>>>

\* .dt.day_name()
DayName(ts) == DayNames[DayOfWeek(ts) + 1]

\* .dt.month_name()
MonthName(ts) == MonthNames[ts.m]

\* The ISO weeks of year y: 53 when it starts on a Thursday, or is a leap year
\* and starts on a Wednesday.
WeeksInYear(y) ==
    LET first == DayOfWeek([y |-> y, m |-> 1, d |-> 1])
    IN  IF first = 3 \/ (first = 2 /\ IsLeap(y)) THEN 53 ELSE 52

\* .dt.isocalendar().week: the week of the Thursday of the date's week.
WeekOfYear(ts) ==
    LET w == (DayOfYear(ts) - DayOfWeek(ts) + 9) \div 7
    IN  IF w < 1 THEN WeeksInYear(ts.y - 1)
        ELSE IF w > WeeksInYear(ts.y) THEN 1
        ELSE w

\* A temporal part of the parsed timestamp.  On NaT the numbers are NaN and the
\* day name, a text, is missing.
DatePart(ts, part) ==
    IF ts.t # "ts" THEN (IF part = "Weekday" THEN NA ELSE NaN)
    ELSE CASE part = "Year" -> Num(ts.y)
           [] part = "Month" -> Num(ts.m)
           [] part = "Day" -> Num(ts.d)
           [] part = "Weekday" -> DayName(ts)
           [] part = "Hour" -> Num(ts.h)

CleanColumns(h) == (h \ {CommunityReportingArea}) \cup DerivedColumns

\* One Canonical Record.
CleanRow(h, row) ==
    [col \in CleanColumns(h) |->
       IF col \in DerivedColumns
       THEN DatePart(to_datetime(row[CreatedDate]), col)
       ELSE CleanCell(h, row, col)]

NoError == <<>>

Failure(m, k, n) == <<[msg |-> m, key |-> k, count |-> n]>>

\* load_and_clean.  Without a "Created Date" column df.get gives None, the
\* column becomes text, and the .dt accessor of line 250 raises.
LoadAndClean ==
    /\ pc = "start"
    /\ IF CreatedDate \in header
       THEN /\ clean' = [i \in 1..Len(raw) |-> CleanRow(header, raw[i])]
            /\ pc' = "cleaned"
            /\ err' = NoError
       ELSE /\ clean' = <<>>
            /\ pc' = "failed"
            /\ err' = Failure("AttributeError", CreatedDate, <<>>)
    /\ UNCHANGED <<header, raw, star, files, keyVars>>


----------------------------------------------------------------------------
(* Dimensional Modeler: build_star_schema *)

\* model_df.get(col, default): the column, or the default in every row.
Get(rows, cols, col, default) ==
    [i \in 1..Len(rows) |-> IF col \in cols THEN rows[i][col] ELSE default]

\* The alphabet in code point order, for sort_values.
CodePoints ==
    <<"\t", "\n", "", "\f", "\r", "", "", "", "", " ", "!", "\"", "#",
      "$", "%", "&", "'", "(", ")", "*", "+", ",", "-", ".", "/", "0", "1",
      "2", "3", "4", "5", "6", "7", "8", "9", ":", ";", "<", "=", ">", "?",
      "@", "A", "B", "C", "D", "E", "F", "G", "H", "I", "J", "K", "L", "M",
      "N", "O", "P", "Q", "R", "S", "T", "U", "V", "W", "X", "Y", "Z", "[",
      "\\", "]", "^", "_", GraveAccent, "a", "b", "c", "d", "e", "f", "g",
      "h", "i", "j", "k", "l", "m", "n", "o", "p", "q", "r", "s", "t", "u",
      "v", "w", "x", "y", "z", "{", "|", "}", "~", "", " ", "¡", "¢", "£",
      "¤", "¥", "¦", "§", "¨", "©", "ª", "«", "¬", "­", "®", "¯", "°", "±",
      "²", "³", "´", "µ", "¶", "·", "¸", "¹", "º", "»", "¼", "½", "¾", "¿",
      "À", "Á", "Â", "Ã", "Ä", "Å", "Æ", "Ç", "È", "É", "Ê", "Ë", "Ì", "Í",
      "Î", "Ï", "Ð", "Ñ", "Ò", "Ó", "Ô", "Õ", "Ö", "×", "Ø", "Ù", "Ú", "Û",
      "Ü", "Ý", "Þ", "ß", "à", "á", "â", "ã", "ä", "å", "æ", "ç", "è", "é",
      "ê", "ë", "ì", "í", "î", "ï", "ð", "ñ", "ò", "ó", "ô", "õ", "ö", "÷",
      "ø", "ù", "ú", "û", "ü", "ý", "þ", "ÿ", CapitalYDiaeresis, "Μ">>

Code(c) == CHOOSE i \in 1..Len(CodePoints) : CodePoints[i] = c

RECURSIVE TextLess(_, _)
TextLess(s, t) ==
    IF t = <<>> THEN FALSE
    ELSE IF s = <<>> THEN TRUE
    ELSE IF Head(s) = Head(t) THEN TextLess(Tail(s), Tail(t))
    ELSE Code(Head(s)) < Code(Head(t))

DateLess(a, b) ==
    \/ a.y < b.y
    \/ a.y = b.y /\ a.m < b.m
    \/ a.y = b.y /\ a.m = b.m /\ a.d < b.d

\* sort_values on a column of distinct texts.
RECURSIVE SortTexts(_)
SortTexts(S) ==
    IF S = {} THEN <<>>
    ELSE LET m == CHOOSE x \in S : \A y \in S \ {x} : TextLess(x, y)
         IN  <<m>> \o SortTexts(S \ {m})

\* sort_values on a column of distinct dates.
RECURSIVE SortDates(_)
SortDates(S) ==
    IF S = {} THEN <<>>
    ELSE LET m == CHOOSE x \in S : \A y \in S \ {x} : DateLess(x, y)
         IN  <<m>> \o SortDates(S \ {m})

Range(s) == {s[i] : i \in 1..Len(s)}

RECURSIVE KeepFirstFrom(_, _, _)
KeepFirstFrom(rows, keys, i) ==
    IF i > Len(rows) THEN <<>>
    ELSE IF \E j \in 1..(i - 1) : keys[j] = keys[i]
         THEN KeepFirstFrom(rows, keys, i + 1)
         ELSE <<rows[i]>> \o KeepFirstFrom(rows, keys, i + 1)

RECURSIVE KeepLastFrom(_, _, _)
KeepLastFrom(rows, keys, i) ==
    IF i > Len(rows) THEN <<>>
    ELSE IF \E j \in (i + 1)..Len(rows) : keys[j] = keys[i]
         THEN KeepLastFrom(rows, keys, i + 1)
         ELSE <<rows[i]>> \o KeepLastFrom(rows, keys, i + 1)

\* drop_duplicates(keep="last"): the last row of each key.
KeepLast(rows, keys) == KeepLastFrom(rows, keys, 1)

\* drop_duplicates(keep="first"): the rows whose key no earlier row has, in order.
KeepFirst(rows, keys) == KeepFirstFrom(rows, keys, 1)

\* "a" + "|" + "b" on string cells: NA when either side is NA.
JoinKey(a, b) == IF a = NA \/ b = NA THEN NA ELSE a \o <<"|">> \o b

\* A key built without the case folding.
DimCategoryKeyNoUpper(v, d) == JoinKey(std_text(v), std_text(d))

\* CategoryKey of a fact row (lines 349-352).
FactCategoryKey(v, d) == JoinKey(std_upper_key(v), std_upper_key(d))

\* CategoryKey of a dim_category row (lines 410-413).
DimCategoryKey(v, d) == JoinKey(std_upper_key(v), std_upper_key(d))

\* created_dt.dt.normalize()
Normalize(ts) == IF ts.t = "ts" THEN Ts(ts.y, ts.m, ts.d, 0) ELSE NaT

\* The columns the dim_location projection selects by name (lines 377-380).
DimLocationSource ==
    {Location, Latitude, Longitude, ZIPCode, PolicePrecinct, CouncilDistrict}

FactRows(rows, cols) ==
    LET key  == build_location_key(Get(rows, cols, Location, NA),
                                   Get(rows, cols, Latitude, NaN),
                                   Get(rows, cols, Longitude, NaN))
        dt   == [i \in 1..Len(rows) |-> to_datetime(rows[i][CreatedDate])]
        text(c) == [i \in 1..Len(rows) |-> std_text(Get(rows, cols, c, NA)[i])]
    IN  [i \in 1..Len(rows) |->
          [ServiceRequestNumber |-> text(ServiceRequestNumber)[i],
           CreatedDateTime      |-> dt[i],
           CreatedDate          |-> Normalize(dt[i]),
           MethodReceived       |-> text(MethodReceived)[i],
           Status               |-> text(Status)[i],
           PolicePrecinct       |-> text(PolicePrecinct)[i],
           CouncilDistrict      |-> Get(rows, cols, CouncilDistrict, NaN)[i],
           ZIPCode              |-> Get(rows, cols, ZIPCode, NA)[i],
           ViolationLocatedAt   |-> text(ViolationLocatedAt)[i],
           DumpingDescription   |-> text(DumpingDescription)[i],
           LocationKey          |-> key[i],
           CategoryKey          |-> FactCategoryKey(text(ViolationLocatedAt)[i],
                                                    text(DumpingDescription)[i])]]

\* dim_date: the distinct dates, ascending, with their calendar attributes.
DimDate(fact) ==
    LET dates == {fact[i].CreatedDate : i \in 1..Len(fact)} \ {NaT}
        sorted == SortDates(dates)
    IN  [i \in 1..Len(sorted) |->
          [Date            |-> sorted[i],
           Year            |-> sorted[i].y,
           MonthNumber     |-> sorted[i].m,
           MonthName       |-> MonthName(sorted[i]),
           DayOfWeekNumber |-> DayOfWeek(sorted[i]),
           DayOfWeekName   |-> DayName(sorted[i]),
           WeekOfYear      |-> WeekOfYear(sorted[i])]]

DimLocation(rows, fact) ==
    LET all == [i \in 1..Len(rows) |->
                 [LocationKey     |-> fact[i].LocationKey,
                  Location        |-> std_text(rows[i][Location]),
                  Latitude        |-> rows[i][Latitude],
                  Longitude       |-> rows[i][Longitude],
                  ZIPCode         |-> rows[i][ZIPCode],
                  PolicePrecinct  |-> std_text(rows[i][PolicePrecinct]),
                  CouncilDistrict |-> rows[i][CouncilDistrict]]]
    IN  KeepFirst(all, [i \in 1..Len(all) |-> all[i].LocationKey])

DimCategory(fact) ==
    LET pairs == [i \in 1..Len(fact) |->
                   <<fact[i].ViolationLocatedAt, fact[i].DumpingDescription>>]
        kept  == KeepFirst(pairs, pairs)
    IN  [i \in 1..Len(kept) |->
          [ViolationLocatedAt |-> kept[i][1],
           DumpingDescription |-> kept[i][2],
           CategoryKey        |-> DimCategoryKey(kept[i][1], kept[i][2])]]

DimIntake(fact) ==
    SortTexts({fact[i].MethodReceived : i \in 1..Len(fact)} \ {NA})

DimStatus(fact) ==
    SortTexts({fact[i].Status : i \in 1..Len(fact)} \ {NA})

Star(rows, cols) ==
    LET fact == FactRows(rows, cols)
    IN  <<[fact         |-> fact,
           dim_date     |-> DimDate(fact),
           dim_location |-> DimLocation(rows, fact),
           dim_category |-> DimCategory(fact),
           dim_intake   |-> DimIntake(fact),
           dim_status   |-> DimStatus(fact)]>>

\* build_star_schema.  The dim_location projection indexes its columns by
\* name, so a frame lacking one of them raises KeyError.
BuildStarSchema ==
    /\ pc = "cleaned"
    /\ LET cols == CleanColumns(header)
       IN  IF DimLocationSource \subseteq cols
           THEN /\ star' = Star(clean, cols)
                /\ pc' = "modeled"
                /\ err' = NoError
           ELSE /\ star' = <<>>
                /\ pc' = "failed"
                /\ err' = Failure("KeyError",
                                  CHOOSE c \in DimLocationSource : c \notin cols,
                                  <<>>)
    /\ UNCHANGED <<header, raw, clean, files, keyVars>>


----------------------------------------------------------------------------
(* Integrity Validator and Exporter: qa_and_export *)

\* Series.duplicated(): the rows that repeat an earlier row (NA repeats NA).
Duplicated(keys) ==
    {i \in 1..Len(keys) : \E j \in 1..(i - 1) : keys[j] = keys[i]}

\* Series.isna().sum()
Nulls(keys, na) == Cardinality({i \in 1..Len(keys) : keys[i] = na})

Column(rows, f) == [i \in 1..Len(rows) |-> rows[i][f]]

GrainMsg ==
    "Fact grain broken: {dup_sr} duplicate ServiceRequestNumber values found."

NullKeyMsg == "Null join keys found in fact: {key_col} has {nulls} nulls."

DimLocationMsg == "dim_location has duplicate LocationKey values."

DimCategoryMsg == "dim_category has duplicate CategoryKey values."

\* QA gates 1 to 3: the ValueError of the first failing check, or none.
QAGates(s) ==
    LET dup_sr   == Cardinality(Duplicated(Column(s.fact, "ServiceRequestNumber")))
        loc_null == Nulls(Column(s.fact, "LocationKey"), NoKey)
        cat_null == Nulls(Column(s.fact, "CategoryKey"), NA)
    IN  IF dup_sr > 0
        THEN Failure(GrainMsg, "ServiceRequestNumber", <<dup_sr>>)
        ELSE IF loc_null > 0
        THEN Failure(NullKeyMsg, "LocationKey", <<loc_null>>)
        ELSE IF cat_null > 0
        THEN Failure(NullKeyMsg, "CategoryKey", <<cat_null>>)
        ELSE IF Duplicated(Column(s.dim_location, "LocationKey")) # {}
        THEN Failure(DimLocationMsg, "LocationKey", <<>>)
        ELSE IF Duplicated(Column(s.dim_category, "CategoryKey")) # {}
        THEN Failure(DimCategoryMsg, "CategoryKey", <<>>)
        ELSE NoError

\* The files in the order of lines 496-501.
ExportFiles ==
    <<"fact_illegal_dumping.csv", "dim_date.csv", "dim_location.csv",
      "dim_category.csv", "dim_intake.csv", "dim_status.csv">>

\* An export that starts whatever the gates said.
ExportAllowedAlways(e) == TRUE

\* The export is reached only when no gate raised.
ExportAllowed(e) == e = NoError

\* qa_and_export up to the last gate.
Validate ==
    /\ pc = "modeled"
    /\ err' = QAGates(star[1])
    /\ pc' = IF ExportAllowed(err') THEN "export" ELSE "failed"
    /\ UNCHANGED <<header, raw, clean, star, files, keyVars>>

\* qa_and_export, one to_csv call.
WriteFile ==
    /\ pc = "export"
    /\ files' = Append(files, ExportFiles[Len(files) + 1])
    /\ pc' = IF Len(files') = Len(ExportFiles) THEN "done" ELSE "export"
    /\ UNCHANGED <<header, raw, clean, star, err, keyVars>>

----------------------------------------------------------------------------
(* One run of the pipeline *)

Init ==
    /\ pc = "start"
    /\ header \in Headers
    /\ \E input \in Inputs \cup {ScenarioInput} : raw = Project(input, header)
    /\ clean = <<>>
    /\ star = <<>>
    /\ files = <<>>
    /\ err = NoError
    /\ keyArgs = NoKeyArgs
    /\ keyRes = <<>>

Next == LoadAndClean \/ BuildStarSchema \/ Validate \/ WriteFile

Spec == Init /\ [][Next]_vars


----------------------------------------------------------------------------
(* Properties of the pipeline *)

Modeled == star # <<>>

Ended == pc \in {"done", "failed"}

SameSet(q, S) == Len(q) = Cardinality(S) /\ Range(q) = S

NoRepeat(keys) == \A i, j \in 1..Len(keys) : keys[i] = keys[j] => i = j

\* The three gates, stated on the tables.
GrainHolds(s) == NoRepeat(Column(s.fact, "ServiceRequestNumber"))

JoinKeysPresent(s) ==
    \A i \in 1..Len(s.fact) :
        s.fact[i].LocationKey # NoKey /\ s.fact[i].CategoryKey # NA

DimKeysUnique(s) ==
    /\ NoRepeat(Column(s.dim_location, "LocationKey"))
    /\ NoRepeat(Column(s.dim_category, "CategoryKey"))

AllGatesHold(s) == GrainHolds(s) /\ JoinKeysPresent(s) /\ DimKeysUnique(s)

\* C1: no file is written unless the grain, join-key and dimension-key gates
\* have all passed on the modeled tables; a failed run has written nothing; the
\* files are written in the fixed order, and a finished run has written all six.
C1_AllOrNothingExport ==
    /\ files # <<>> => Modeled /\ AllGatesHold(star[1]) /\ err = NoError
    /\ (Modeled /\ ~AllGatesHold(star[1])) => files = <<>>
    /\ pc = "failed" => files = <<>>
    /\ files = SubSeq(ExportFiles, 1, Len(files))
    /\ pc = "done" => SameSet(files, Range(ExportFiles)) /\ Len(files) = 6

\* A run of two records that passed the gates and wrote the six files.
C1_Witness ==
    /\ pc = "done"
    /\ Len(raw) = 2
    /\ AllGatesHold(star[1])
    /\ Len(files) = 6

\* Two records of the input carry the same request number.
DuplicateRequestNumber ==
    /\ ServiceRequestNumber \in header
    /\ \E i, j \in 1..Len(raw) :
          /\ i # j
          /\ raw[i][ServiceRequestNumber] # NA
          /\ raw[i][ServiceRequestNumber] = raw[j][ServiceRequestNumber]

GrainError == err # NoError /\ err[1].msg = GrainMsg

\* C2: a run whose input holds the same request number twice ends with the
\* grain-violation error and no file; an exported fact table has no two rows
\* with the same request number.
C2_DuplicateEndsInGrainError ==
    /\ (Ended /\ DuplicateRequestNumber) => GrainError /\ files = <<>>
    /\ files # <<>> => GrainHolds(star[1])

\* The same on the files that have every expected column: there the grain gate
\* is reached, and is the first to raise.
GrainGateFirstOnFullHeader ==
    (Ended /\ DuplicateRequestNumber /\ ExpectedColumns \subseteq header)
      => GrainError /\ files = <<>>

\* C3: in the tables build_star_schema returns no two rows of a dimension share
\* its natural key: Date, LocationKey, CategoryKey, MethodReceived, Status.
C3_DimensionKeysUnique ==
    Modeled =>
      /\ NoRepeat(Column(star[1].dim_date, "Date"))
      /\ NoRepeat(Column(star[1].dim_location, "LocationKey"))
      /\ NoRepeat(Column(star[1].dim_category, "CategoryKey"))
      /\ NoRepeat(star[1].dim_intake)
      /\ NoRepeat(star[1].dim_status)

\* C6: every fact row's (ViolationLocatedAt, DumpingDescription) pair has a
\* dim_category row, and every dim_category row of that pair carries the
\* CategoryKey of the fact row.
C6_CategoryKeySymmetry ==
    Modeled =>
      \A i \in 1..Len(star[1].fact) :
        LET f == star[1].fact[i]
            same(d) == /\ d.ViolationLocatedAt = f.ViolationLocatedAt
                       /\ d.DumpingDescription = f.DumpingDescription
        IN  /\ \E k \in 1..Len(star[1].dim_category) :
                  same(star[1].dim_category[k])
            /\ \A k \in 1..Len(star[1].dim_category) :
                  same(star[1].dim_category[k]) =>
                    star[1].dim_category[k].CategoryKey = f.CategoryKey

\* A pair whose fields were absent and became "Unknown", with its key in both
\* tables, beside a pair with lower-case letters.
C6_Witness ==
    /\ Modeled
    /\ \E i \in 1..Len(star[1].fact), k \in 1..Len(star[1].dim_category) :
          /\ raw[i][ViolationLocatedAt] = NA
          /\ star[1].fact[i].ViolationLocatedAt = Unknown
          /\ star[1].fact[i].CategoryKey = Upper(Unknown) \o <<"|">> \o Upper(Unknown)
          /\ star[1].dim_category[k].CategoryKey = star[1].fact[i].CategoryKey
    /\ \E i \in 1..Len(star[1].fact) :
          star[1].fact[i].ViolationLocatedAt = <<"A", "l", "l", "e", "y">>


\* The cleaner has run to its end.
Cleaned == pc # "start" /\ CreatedDate \in header

\* A text cell holding no value: missing, blank, or one of the "no value" markers.
AbsentText(v) == v = NA \/ Strip(v) \in NullTokens

\* A ZIP cell with no run of five digits.
NoFiveDigits(v) ==
    \/ v = NA
    \/ ~\E i \in 1..(Len(v) - 4) : \A k \in 0..4 : v[i + k] \in Digits

\* The six categorical fields that may become "Unknown".
UnknownFields ==
    {PolicePrecinct, Status, MethodReceived, ViolationLocatedAt,
     DumpingDescription, Location}

\* C7: cleaning turns no absent or unparsable cell into a value, except that
\* the six categorical fields become "Unknown"; an absent or non-numeric council
\* district is absent in the Canonical Record and in the fact row, as are an
\* absent ZIP and an absent request number.
C7_NoFabrication ==
    Cleaned =>
      \A i \in 1..Len(clean) :
        /\ \A c \in (header \cap TextColumns) \ {CommunityReportingArea} :
              AbsentText(raw[i][c]) =>
                \/ clean[i][c] = NA
                \/ c \in UnknownFields /\ clean[i][c] = Unknown
        /\ ZIPCode \in header /\ NoFiveDigits(raw[i][ZIPCode])
              => clean[i][ZIPCode] = NA
        /\ \A c \in header \cap {CouncilDistrict, Latitude, Longitude} :
              ~IsNum(raw[i][c]) => clean[i][c] = NaN
        /\ raw[i][CreatedDate].t # "ts" =>
              /\ clean[i][CreatedDate] = NaT
              /\ \A c \in DerivedColumns \ {"Weekday"} : clean[i][c] = NaN
              /\ clean[i]["Weekday"] = NA
        /\ Modeled =>
              /\ ~IsNum(raw[i][CouncilDistrict])
                    => star[1].fact[i].CouncilDistrict = NaN
              /\ NoFiveDigits(raw[i][ZIPCode]) => star[1].fact[i].ZIPCode = NA
              /\ (ServiceRequestNumber \in header
                    /\ AbsentText(raw[i][ServiceRequestNumber]))
                    => star[1].fact[i].ServiceRequestNumber = NA
              /\ raw[i][CreatedDate].t # "ts"
                    => star[1].fact[i].CreatedDate = NaT

\* A record with a non-numeric district, a malformed ZIP and no precinct, cleaned
\* and modeled: district and ZIP absent, precinct "Unknown".
C7_Witness ==
    /\ Modeled
    /\ \E i \in 1..Len(clean) :
          /\ raw[i][CouncilDistrict] = NotNum
          /\ clean[i][CouncilDistrict] = NaN
          /\ star[1].fact[i].CouncilDistrict = NaN
          /\ raw[i][ZIPCode] # NA
          /\ clean[i][ZIPCode] = NA
          /\ raw[i][PolicePrecinct] = NA
          /\ clean[i][PolicePrecinct] = Unknown
    /\ \E i \in 1..Len(clean) : IsNum(clean[i][CouncilDistrict])

StageError == err # NoError /\ err[1].msg \in {"AttributeError", "KeyError"}

\* C8: a run on a file lacking an expected column does not fail in the Record
\* Cleaner or the Dimensional Modeler: no stage raises, and the run ends with
\* the tables modeled.
C8_MissingColumnTolerated ==
    (ExpectedColumns \ header # {}) =>
      /\ ~StageError
      /\ Ended => Modeled

\* The columns whose absence both stages do survive.
C8_ToleratedColumns ==
    (Ended /\ header \cap {Status, MethodReceived, ViolationLocatedAt,
                           DumpingDescription, ServiceRequestNumber}
                # {Status, MethodReceived, ViolationLocatedAt,
                   DumpingDescription, ServiceRequestNumber}) => Modeled

ValidationErrors == {GrainMsg, NullKeyMsg, DimLocationMsg, DimCategoryMsg}

\* The number of violations of the check an error names.
Violations(e) ==
    CASE e.msg = GrainMsg ->
           Cardinality(Duplicated(Column(star[1].fact, "ServiceRequestNumber")))
      [] e.msg = NullKeyMsg /\ e.key = "LocationKey" ->
           Nulls(Column(star[1].fact, "LocationKey"), NoKey)
      [] e.msg = NullKeyMsg /\ e.key = "CategoryKey" ->
           Nulls(Column(star[1].fact, "CategoryKey"), NA)
      [] e.msg = DimLocationMsg ->
           Cardinality(Duplicated(Column(star[1].dim_location, "LocationKey")))
      [] e.msg = DimCategoryMsg ->
           Cardinality(Duplicated(Column(star[1].dim_category, "CategoryKey")))

\* C9: the error of a failing check names the check and the number of its
\* violations.
C9_ErrorNamesCheckAndCount ==
    (pc = "failed" /\ err # NoError /\ err[1].msg \in ValidationErrors) =>
      /\ err[1].count = <<Violations(err[1])>>
      /\ Violations(err[1]) > 0

\* The grain and join-key errors do carry their count.
C9_GrainAndNullKeyCount ==
    (pc = "failed" /\ err # NoError /\ err[1].msg \in {GrainMsg, NullKeyMsg}) =>
      /\ err[1].count = <<Violations(err[1])>>
      /\ Violations(err[1]) > 0

\* The first Canonical Record, in input order, whose fact row has key k.
FirstWithKey(k) ==
    CHOOSE i \in 1..Len(clean) :
      /\ star[1].fact[i].LocationKey = k
      /\ \A j \in 1..(i - 1) : star[1].fact[j].LocationKey # k

\* C10: dim_location has exactly one row for each Location Key of the fact
\* table, carrying the address, coordinates, precinct, district and ZIP of the
\* first record in input order with that key; the three-record scenario gives
\* two rows.
C10_DimLocationFirstOccurrence ==
    Modeled =>
      LET dim == star[1].dim_location
      IN  /\ SameSet(Column(dim, "LocationKey"),
                     Range(Column(star[1].fact, "LocationKey")))
          /\ \A k \in 1..Len(dim) :
                LET r == clean[FirstWithKey(dim[k].LocationKey)]
                IN  /\ dim[k].Location = r[Location]
                    /\ dim[k].Latitude = r[Latitude]
                    /\ dim[k].Longitude = r[Longitude]
                    /\ dim[k].PolicePrecinct = r[PolicePrecinct]
                    /\ dim[k].CouncilDistrict = r[CouncilDistrict]
                    /\ dim[k].ZIPCode = r[ZIPCode]
          /\ raw = ScenarioInput => Len(dim) = 2

\* The scenario, modeled: rows a and b under one coordinate key with the
\* address of a, row c under its address key.
C10_Witness ==
    /\ Modeled
    /\ raw = ScenarioInput
    /\ Len(star[1].dim_location) = 2
    /\ star[1].dim_location[1].LocationKey.form = "geo"
    /\ star[1].dim_location[1].Location = raw[1][Location]
    /\ raw[2][Location] # raw[1][Location]
    /\ star[1].fact[2].LocationKey = star[1].fact[1].LocationKey
    /\ star[1].dim_location[2].LocationKey =
          AddrKey(<<"4", "5", "6", " ", "O", "A", "K", " ", "A", "V", "E">>)

\* The request number of record i is absent: no such column, a missing cell, an
\* empty cell, or a "None" or "nan" marker.
AbsentRequestNumber(i) ==
    IF ServiceRequestNumber \in header
    THEN AbsentText(raw[i][ServiceRequestNumber])
    ELSE TRUE

TwoAbsentRequestNumbers ==
    Cardinality({i \in 1..Len(raw) : AbsentRequestNumber(i)}) >= 2

\* C11: a run whose input holds two or more records with an absent request
\* number ends with the grain-violation error and exports nothing.
C11_AbsentRequestNumbersEndInGrainError ==
    (Ended /\ TwoAbsentRequestNumbers) => GrainError /\ files = <<>>

\* The same once the tables are modeled: the grain check counts every absent
\* request number after the first as a duplicate, and is the gate that raises.
AbsentCountAsDuplicatesWhenValidated ==
    (Ended /\ Modeled /\ TwoAbsentRequestNumbers) =>
      /\ GrainError
      /\ err[1].count[1] >=
            Cardinality({i \in 1..Len(raw) : AbsentRequestNumber(i)}) - 1
      /\ files = <<>>

============================================================================
